---- MODULE Spec2Model ----
(***************************************************************************)
(* Bundle archive codec (packBundle / loadBundle) and session reconciler   *)
(* (useBundleHandling) of the pdf-turtle playground.                       *)
(*                                                                         *)
(* Source: src/src/components/composables/bundle-handling.ts               *)
(*         src/src/components/Playground.vue                               *)
(***************************************************************************)
EXTENDS Integers, Sequences, FiniteSets, TLC

(***************************************************************************)
(* Option values: null / undefined is the empty sequence, a value v is     *)
(* the one-element sequence <<v>>.                                         *)
(***************************************************************************)
None == <<>>

Some(v) == <<v>>

IsSome(o) == Len(o) > 0

Get(o) == o[1]

(***************************************************************************)
(* Strings.  HTML template strings are drawn from Texts; "" is the empty   *)
(* string, the only falsy one.                                             *)
(***************************************************************************)
Texts == {"", "t1", "t2"}

Truthy(s) == s # ""

(***************************************************************************)
(* JSON.  A JSON text is a record [fmt, val]: fmt tells how the text is    *)
(* written ("compact" as JSON.stringify(v) writes it, "pretty" as          *)
(* JSON.stringify(v, null, 2) writes it, "loose" any other valid layout,   *)
(* "bad" a non-empty text that is no JSON, "empty" the empty string) and   *)
(* val the value it denotes.                                               *)
(***************************************************************************)
ValidFmts == {"compact", "pretty", "loose"}

JsonValid(t) == t.fmt \in ValidFmts

\* JSON.parse throws a SyntaxError exactly on the texts that are not valid.
JsonParseThrows(t) == ~JsonValid(t)

JsonParse(t) == t.val

JsonStringify(v) == [fmt |-> "compact", val |-> v]

JsonStringifyPretty(v) == [fmt |-> "pretty", val |-> v]

\* Truthiness of a string holding JSON text: only the empty string is falsy.
TruthyJson(t) == t.fmt # "empty"

(***************************************************************************)
(* Example model values ("{}" is the empty object) and model strings.      *)
(***************************************************************************)
ModelVals == {"{}", "m1", "m2"}

BadModelStr == [fmt |-> "bad", val |-> "{}"]

EmptyModelStr == [fmt |-> "empty", val |-> "{}"]

(***************************************************************************)
(* Render options: a map from option keys to values.  getBaseOptions()     *)
(* gives every recognized key its default.                                 *)
(***************************************************************************)
OptionKeys == {"pageFormat", "landscape"}

getBaseOptions == [k \in OptionKeys |-> "dflt"]

\* { ...a, ...b }: object spread, the keys of b win.
Spread(a, b) == [k \in (DOMAIN a) \cup (DOMAIN b) |-> IF k \in DOMAIN b THEN b[k] ELSE a[k]]

EmptyMap == [k \in {} |-> "dflt"]

BadOptionsStr == [fmt |-> "bad", val |-> EmptyMap]

EmptyOptionsStr == [fmt |-> "empty", val |-> EmptyMap]

(***************************************************************************)
(* Assets: a sequence of [name, blob].                                     *)
(***************************************************************************)
AssetNames == {"a1", "a2"}

Blobs == {"b1", "b2"}

\* the zip directory entry "assets/" itself: the path below the prefix is ""
FolderEntry == [name |-> "", blob |-> "dir"]

Engines == {"golang", "handlebars"}

(***************************************************************************)
(* The bound Session (RenderTemplateDataViewModel).                        *)
(***************************************************************************)
MaxAssets == 2

AssetSeqs == UNION {[1..n -> [name : AssetNames, blob : Blobs]] : n \in 0..MaxAssets}

\* the names of a session's assets are non-empty and pairwise distinct
DistinctNames(as) == \A i, j \in 1..Len(as) : as[i].name = as[j].name => i = j

(***************************************************************************)
(* IncludedFiles: an absent flag is undefined, i.e. falsy.                 *)
(***************************************************************************)
IncludedFiles == [index : BOOLEAN, header : BOOLEAN, footer : BOOLEAN,
                  options : BOOLEAN, assets : BOOLEAN, exampleModel : BOOLEAN]

NoFiles == [index |-> FALSE, header |-> FALSE, footer |-> FALSE,
            options |-> FALSE, assets |-> FALSE, exampleModel |-> FALSE]

includedFilesAll == [index |-> TRUE, header |-> TRUE, footer |-> TRUE,
                     options |-> TRUE, assets |-> TRUE, exampleModel |-> TRUE]

\* lines 117-134: the selection downloadBundle derives from its argument
OnlyKinds == {"documentWithoutHeaderAndFooter", "onlyBody", "onlyHeader", "onlyFooter",
              "onlyOptions", "onlyAssets", "undefined"}

IncludedFilesOf(only) ==
  CASE only = "documentWithoutHeaderAndFooter" ->
         [NoFiles EXCEPT !.index = TRUE, !.options = TRUE, !.assets = TRUE]
    [] only = "onlyBody" -> [NoFiles EXCEPT !.index = TRUE]
    [] only = "onlyHeader" -> [NoFiles EXCEPT !.header = TRUE]
    [] only = "onlyFooter" -> [NoFiles EXCEPT !.footer = TRUE]
    [] only = "onlyOptions" -> [NoFiles EXCEPT !.options = TRUE]
    [] only = "onlyAssets" -> [NoFiles EXCEPT !.assets = TRUE]
    [] OTHER -> includedFilesAll

(***************************************************************************)
(* The zip container.  ok = FALSE is a byte buffer JsZip.loadAsync cannot  *)
(* open.  Each member is an option; assets holds the entries whose path    *)
(* starts with "assets/", in the order of zip.files, keyed by the rest of  *)
(* the path.                                                               *)
(***************************************************************************)
EmptyZip == [ok |-> TRUE, index |-> None, header |-> None, footer |-> None,
             options |-> None, exampleModel |-> None, assets |-> <<>>]

CorruptZip == [EmptyZip EXCEPT !.ok = FALSE]

HasEntry(entries, n) == \E i \in 1..Len(entries) : entries[i].name = n

\* zip.files[path] = entry: a new key is appended, an existing key keeps its place
ZipSet(entries, e) ==
  IF HasEntry(entries, e.name)
  THEN [i \in 1..Len(entries) |-> IF entries[i].name = e.name THEN e ELSE entries[i]]
  ELSE Append(entries, e)

\* zip.file("assets/" + name, blob): JSZip first creates the parent folder
\* entry "assets/" when the path has one and it is missing
ZipFileAsset(entries, a) ==
  LET withFolder == IF a.name # "" /\ ~HasEntry(entries, "") THEN Append(entries, FolderEntry)
                    ELSE entries
  IN ZipSet(withFolder, [name |-> a.name, blob |-> a.blob])

RECURSIVE ZipFileAssets(_, _)
ZipFileAssets(entries, as) ==
  IF as = <<>> THEN entries ELSE ZipFileAssets(ZipFileAsset(entries, Head(as)), Tail(as))

\* lines 37-63 with example-model.json written from the cached model value
packBundleFromModel(data, includedFiles) ==
  LET z1 == IF includedFiles.index
            THEN [EmptyZip EXCEPT !.index = Some(data.htmlTemplate)] ELSE EmptyZip
      z2 == IF includedFiles.header /\ Truthy(data.headerHtmlTemplate)
            THEN [z1 EXCEPT !.header = Some(data.headerHtmlTemplate)] ELSE z1
      z3 == IF includedFiles.footer /\ Truthy(data.footerHtmlTemplate)
            THEN [z2 EXCEPT !.footer = Some(data.footerHtmlTemplate)] ELSE z2
      z4 == IF includedFiles.options
            THEN [z3 EXCEPT !.options = Some(JsonStringify(data.options))] ELSE z3
      z5 == IF includedFiles.exampleModel
            THEN [z4 EXCEPT !.exampleModel = Some(JsonStringify(data.model))] ELSE z4
      z6 == IF includedFiles.assets
            THEN [z5 EXCEPT !.assets = ZipFileAssets(<<>>, data.assets)] ELSE z5
  IN [threw |-> FALSE, zip |-> z6]

\* lines 37-63 with header.html written whenever the header is selected
packBundleWritesEmptyHeader(data, includedFiles) ==
  LET z1 == IF includedFiles.index
            THEN [EmptyZip EXCEPT !.index = Some(data.htmlTemplate)] ELSE EmptyZip
      z2 == IF includedFiles.header
            THEN [z1 EXCEPT !.header = Some(data.headerHtmlTemplate)] ELSE z1
      z3 == IF includedFiles.footer /\ Truthy(data.footerHtmlTemplate)
            THEN [z2 EXCEPT !.footer = Some(data.footerHtmlTemplate)] ELSE z2
      z4 == IF includedFiles.options
            THEN [z3 EXCEPT !.options = Some(JsonStringify(data.options))] ELSE z3
      threw == includedFiles.exampleModel /\ JsonParseThrows(data.modelStr)
      z5 == IF includedFiles.exampleModel
            THEN [z4 EXCEPT !.exampleModel = Some(JsonStringify(JsonParse(data.modelStr)))]
            ELSE z4
      z6 == IF includedFiles.assets
            THEN [z5 EXCEPT !.assets = ZipFileAssets(<<>>, data.assets)] ELSE z5
  IN IF threw THEN [threw |-> TRUE, zip |-> EmptyZip] ELSE [threw |-> FALSE, zip |-> z6]

(***************************************************************************)
(* packBundle(data, includedFiles): [threw, zip].  It throws (SyntaxError  *)
(* of JSON.parse) before any archive is produced.                          *)
(***************************************************************************)
packBundle(data, includedFiles) ==
  LET z1 == IF includedFiles.index
            THEN [EmptyZip EXCEPT !.index = Some(data.htmlTemplate)] ELSE EmptyZip
      z2 == IF includedFiles.header /\ Truthy(data.headerHtmlTemplate)
            THEN [z1 EXCEPT !.header = Some(data.headerHtmlTemplate)] ELSE z1
      z3 == IF includedFiles.footer /\ Truthy(data.footerHtmlTemplate)
            THEN [z2 EXCEPT !.footer = Some(data.footerHtmlTemplate)] ELSE z2
      z4 == IF includedFiles.options
            THEN [z3 EXCEPT !.options = Some(JsonStringify(data.options))] ELSE z3
      threw == includedFiles.exampleModel /\ JsonParseThrows(data.modelStr)
      z5 == IF includedFiles.exampleModel
            THEN [z4 EXCEPT !.exampleModel = Some(JsonStringify(JsonParse(data.modelStr)))]
            ELSE z4
      z6 == IF includedFiles.assets
            THEN [z5 EXCEPT !.assets = ZipFileAssets(<<>>, data.assets)] ELSE z5
  IN IF threw THEN [threw |-> TRUE, zip |-> EmptyZip] ELSE [threw |-> FALSE, zip |-> z6]

(***************************************************************************)
(* loadBundle(bundleBufferSrc, target): [error, target, notified].         *)
(* error is "none", "CorruptArchive" (JsZip.loadAsync rejects) or          *)
(* "SyntaxError" (a JSON.parse throws); target is the target as the call   *)
(* leaves it, the assignments made before a throw included; notified tells *)
(* whether an assignment changed a property of the (reactive) target: a    *)
(* string that differs, or any newly built object or array.                *)
(***************************************************************************)
\* the literal "{}" that stands in for a missing example-model.json
DefaultModelStr == [fmt |-> "compact", val |-> "{}"]

\* lines 80-87 without the test fKey !== assetFolderPath
ReadAssetsWithFolder(entries) ==
  [i \in 1..Len(entries) |-> [name |-> entries[i].name, blob |-> entries[i].blob]]

\* lines 80-87: the entries below "assets/" other than the folder itself
RECURSIVE ReadAssets(_)
ReadAssets(entries) ==
  IF entries = <<>> THEN <<>>
  ELSE IF Head(entries).name # ""
       THEN <<[name |-> Head(entries).name, blob |-> Head(entries).blob]>>
              \o ReadAssets(Tail(entries))
       ELSE ReadAssets(Tail(entries))

\* lines 98-100 without the spread of getBaseOptions()
SetOptionsNoDefaults(t, optionsStr) ==
  IF IsSome(optionsStr) /\ TruthyJson(Get(optionsStr))
  THEN IF JsonParseThrows(Get(optionsStr))
       THEN [threw |-> TRUE, set |-> FALSE, target |-> t]
       ELSE [threw |-> FALSE, set |-> TRUE,
             target |-> [t EXCEPT !.options = JsonParse(Get(optionsStr))]]
  ELSE [threw |-> FALSE, set |-> FALSE, target |-> t]

\* lines 98-100: [threw, target]
SetOptions(t, optionsStr) ==
  IF IsSome(optionsStr) /\ TruthyJson(Get(optionsStr))
  THEN IF JsonParseThrows(Get(optionsStr))
       THEN [threw |-> TRUE, set |-> FALSE, target |-> t]
       ELSE [threw |-> FALSE, set |-> TRUE,
             target |-> [t EXCEPT !.options = Spread(getBaseOptions,
                                                     JsonParse(Get(optionsStr)))]]
  ELSE [threw |-> FALSE, set |-> FALSE, target |-> t]

\* lines 101-105, with the string assigned before it is parsed
SetModelStringFirst(t, exampleModelStr) ==
  IF TruthyJson(exampleModelStr)
  THEN IF JsonParseThrows(exampleModelStr)
       THEN [threw |-> TRUE, set |-> TRUE, target |-> [t EXCEPT !.modelStr = exampleModelStr]]
       ELSE [threw |-> FALSE, set |-> TRUE,
             target |-> [t EXCEPT !.model = JsonParse(exampleModelStr),
                                  !.modelStr = JsonStringifyPretty(JsonParse(exampleModelStr))]]
  ELSE [threw |-> FALSE, set |-> FALSE, target |-> t]

\* lines 101-105: [threw, target]
SetModel(t, exampleModelStr) ==
  IF TruthyJson(exampleModelStr)
  THEN IF JsonParseThrows(exampleModelStr)
       THEN [threw |-> TRUE, set |-> FALSE, target |-> t]
       ELSE [threw |-> FALSE, set |-> TRUE,
             target |-> [t EXCEPT !.model = JsonParse(exampleModelStr),
                                  !.modelStr = JsonStringifyPretty(JsonParse(exampleModelStr))]]
  ELSE [threw |-> FALSE, set |-> FALSE, target |-> t]

\* lines 107-109 appending to the assets the target has
SetAssetsMerge(t, assets) ==
  IF Len(assets) > 0 THEN [t EXCEPT !.assets = t.assets \o assets] ELSE t

\* lines 107-109: a non-empty list read from the archive replaces the assets
SetAssets(t, assets) ==
  IF Len(assets) > 0 THEN [t EXCEPT !.assets = assets] ELSE t

loadBundle(zip, target) ==
  LET indexStr == zip.index
      headerStr == zip.header
      footerStr == zip.footer
      optionsStr == zip.options
      exampleModelStr == IF IsSome(zip.exampleModel) THEN Get(zip.exampleModel)
                         ELSE DefaultModelStr
      assets == ReadAssets(zip.assets)
      t1 == IF IsSome(indexStr) /\ Truthy(Get(indexStr))
            THEN [target EXCEPT !.htmlTemplate = Get(indexStr)] ELSE target
      t2 == IF IsSome(headerStr) /\ Truthy(Get(headerStr))
            THEN [t1 EXCEPT !.headerHtmlTemplate = Get(headerStr)] ELSE t1
      t3 == IF IsSome(footerStr) /\ Truthy(Get(footerStr))
            THEN [t2 EXCEPT !.footerHtmlTemplate = Get(footerStr)] ELSE t2
      o == SetOptions(t3, optionsStr)
      m == SetModel(o.target, exampleModelStr)
      setAssets == Len(assets) > 0
      t6 == SetAssets(m.target, assets)
  IN IF ~zip.ok
     THEN [error |-> "CorruptArchive", target |-> target, notified |-> FALSE]
     ELSE IF o.threw
     THEN [error |-> "SyntaxError", target |-> o.target, notified |-> t3 # target]
     ELSE IF m.threw
     THEN [error |-> "SyntaxError", target |-> m.target,
           notified |-> t3 # target \/ o.set \/ m.set]
     ELSE [error |-> "none", target |-> t6,
           notified |-> t3 # target \/ o.set \/ m.set \/ setAssets]

(***************************************************************************)
(* getBaseRenderData(): the sample session the page starts from, and       *)
(* getBaseRenderData(true), the empty one.                                 *)
(***************************************************************************)
SampleRenderData ==
  [htmlTemplate |-> "t1", headerHtmlTemplate |-> "t1", footerHtmlTemplate |-> "",
   options |-> getBaseOptions, model |-> "m1",
   modelStr |-> JsonStringifyPretty("m1"), assets |-> <<>>, templateEngine |-> "golang"]

EmptyRenderData ==
  [htmlTemplate |-> "", headerHtmlTemplate |-> "", footerHtmlTemplate |-> "",
   options |-> getBaseOptions, model |-> "{}",
   modelStr |-> JsonStringifyPretty("{}"), assets |-> <<>>, templateEngine |-> "golang"]

getBaseRenderData(empty) == IF empty THEN EmptyRenderData ELSE SampleRenderData

(***************************************************************************)
(* The remote bundle directory and the archives found outside the program. *)
(***************************************************************************)
BundleIds == {"id1", "id2"}

Names == {"n1", "n2"}

FullZip ==
  [ok |-> TRUE, index |-> Some("t2"), header |-> Some("t2"), footer |-> Some("t2"),
   options |-> Some(JsonStringify([pageFormat |-> "set", landscape |-> "dflt"])),
   exampleModel |-> Some(JsonStringify("m2")),
   assets |-> <<FolderEntry, [name |-> "a1", blob |-> "b1"]>>]

HeaderOnlyZip == [EmptyZip EXCEPT !.header = Some("t2")]

BadModelZip == [FullZip EXCEPT !.exampleModel = Some(BadModelStr)]

BadOptionsZip == [FullZip EXCEPT !.options = Some(BadOptionsStr)]

\* the files a user may pick for import
LocalZips == {FullZip, HeaderOnlyZip, BadOptionsZip, CorruptZip}

\* a suspended async call; resume marks the getBundle started at construction
\* edited records that the user has edited the session since the call packed it
NoOp == [op |-> "none", pc |-> "", id |-> "", name |-> "", zip |-> EmptyZip, engine |-> "",
         resume |-> FALSE, edited |-> FALSE]

VARIABLES
  session,               \* reactiveRenderTemplateDataViewModel
  currentBundle,         \* ref<BundleInfo | null>
  dirty,                 \* ref(false)
  bundleError,           \* ref<string | null>
  bundleFileInputModel,  \* ref<File | null>
  localStorage,          \* localStorage["currentBundle"]
  remote,                \* the remote bundle directory: id -> stored bundle
  inflight,              \* the async calls suspended at an await
  last,                  \* the handler that completed last: outcome, return value, page before
  events,                \* number of user / browser events so far
  codec                  \* a direct call of packBundle / loadBundle: arguments and result

vars == <<session, currentBundle, dirty, bundleError, bundleFileInputModel,
          localStorage, remote, inflight, last, events, codec>>

MaxEvents == 3

MaxInFlight == 2

(***************************************************************************)
(* The page's mutable state as one record, so that the parts of a handler  *)
(* that run back to back (its synchronous code and the microtasks it       *)
(* queues) compose as functions.  watchQueued is the job of                *)
(* watch(reactiveRenderTemplateDataViewModel) waiting in Vue's scheduler.  *)
(***************************************************************************)
Page ==
  [session |-> session, currentBundle |-> currentBundle, dirty |-> dirty,
   bundleError |-> bundleError, bundleFileInputModel |-> bundleFileInputModel,
   localStorage |-> localStorage, watchQueued |-> FALSE]

SetPage(p) ==
  /\ session' = p.session
  /\ currentBundle' = p.currentBundle
  /\ dirty' = p.dirty
  /\ bundleError' = p.bundleError
  /\ bundleFileInputModel' = p.bundleFileInputModel
  /\ localStorage' = p.localStorage

\* a write to the reactive session that changes it queues the watcher's job
Notify(p, changed) == IF changed THEN [p EXCEPT !.watchQueued = TRUE] ELSE p

\* lines 217-219 with a watcher callback that leaves dirty alone
FlushWatchKeepsDirty(p) == [p EXCEPT !.watchQueued = FALSE]

\* lines 217-219: the scheduler's flush runs the queued watcher callback
FlushWatch(p) ==
  IF p.watchQueued THEN [p EXCEPT !.dirty = TRUE, !.watchQueued = FALSE] ELSE p

\* lines 199-201
cleanLocalStorageBundle(p) == [p EXCEPT !.localStorage = None]

Remove(seq, i) == SubSeq(seq, 1, i - 1) \o SubSeq(seq, i + 1, Len(seq))

\* the record of a handler that has run: its outcome, the value it returned, the
\* suspended call it completed (NoOp for a synchronous handler) and the page as
\* it was when the step that completed it began
Done(op, ok, ret, call) ==
  [op |-> op, ok |-> ok, ret |-> ret, items |-> {}, call |-> call, before |-> Page]

(***************************************************************************)
(* Direct edits of the bound session by the editor widgets (v-model).      *)
(***************************************************************************)
EditValues ==
  [htmlTemplate |-> {"t1", "t2"},
   headerHtmlTemplate |-> {"", "t1"},
   footerHtmlTemplate |-> {"", "t1"},
   options |-> {getBaseOptions, [getBaseOptions EXCEPT !.landscape = "set"]},
   modelStr |-> {JsonStringifyPretty("m1"), BadModelStr},
   assets |-> {<<>>, <<[name |-> "a2", blob |-> "b2"]>>},
   templateEngine |-> Engines]

EditFields == DOMAIN EditValues

\* the saves in flight have packed a session that the user has edited since
MarkEdited(ops) ==
  [i \in 1..Len(ops) |-> IF ops[i].op = "storeBundle" THEN [ops[i] EXCEPT !.edited = TRUE]
                         ELSE ops[i]]

Edit(field, v) ==
  /\ events < MaxEvents
  /\ v # session[field]
  /\ SetPage(FlushWatch(Notify([Page EXCEPT !.session[field] = v], TRUE)))
  /\ inflight' = MarkEdited(inflight)
  /\ last' = Done("edit", TRUE, "", NoOp)
  /\ events' = events + 1
  /\ UNCHANGED <<remote, codec>>

\* Playground.vue line 228: the popup edit of currentBundle.name
EditBundleName(n) ==
  /\ events < MaxEvents
  /\ IsSome(currentBundle)
  /\ n # Get(currentBundle).name
  /\ currentBundle' = Some([Get(currentBundle) EXCEPT !.name = n])
  /\ last' = Done("rename", TRUE, "", NoOp)
  /\ events' = events + 1
  /\ UNCHANGED <<session, dirty, bundleError, bundleFileInputModel, localStorage,
                 remote, inflight, codec>>

\* Playground.vue lines 380-383
loadEmptyData ==
  /\ events < MaxEvents
  /\ LET p1 == Notify([Page EXCEPT !.session = getBaseRenderData(TRUE)], TRUE)
         p2 == [p1 EXCEPT !.currentBundle = None]
     IN SetPage(FlushWatch(p2))
  /\ last' = Done("loadEmptyData", TRUE, "", NoOp)
  /\ events' = events + 1
  /\ UNCHANGED <<remote, inflight, codec>>

\* Playground.vue lines 385-389
loadSampleData ==
  /\ events < MaxEvents
  /\ LET p1 == Notify([Page EXCEPT !.session = getBaseRenderData(FALSE)], TRUE)
         p2 == cleanLocalStorageBundle([p1 EXCEPT !.currentBundle = None])
     IN SetPage(FlushWatch(p2))
  /\ last' = Done("loadSampleData", TRUE, "", NoOp)
  /\ events' = events + 1
  /\ UNCHANGED <<remote, inflight, codec>>

(***************************************************************************)
(* getBundle(id), lines 154-173.                                           *)
(***************************************************************************)
\* EnumRenderTemplateDataTemplateEngine[engine]
EngineOfTag(tag) == IF tag \in Engines THEN tag ELSE "undefined"

GetOp(id) == [NoOp EXCEPT !.op = "getBundle", !.pc = "fetch", !.id = id]

\* lines 231-234: getBundle(savedBundleId) at construction
ResumeOp(id) == [GetOp(id) EXCEPT !.resume = TRUE]

\* lines 231-234: the calls in flight after construction
Resume(ls) == IF IsSome(ls) THEN <<ResumeOp(Get(ls))>> ELSE <<>>

\* Playground.vue lines 398-401: the call issues the fetch and suspends
GetBundleCall(id) ==
  /\ events < MaxEvents
  /\ Len(inflight) < MaxInFlight
  /\ inflight' = Append(inflight, GetOp(id))
  /\ events' = events + 1
  /\ UNCHANGED <<session, currentBundle, dirty, bundleError, bundleFileInputModel,
                 localStorage, remote, last, codec>>

\* lines 156-160 and 170-172: the fetch rejects, or the response is not ok
GetBundleFetchFails(i) ==
  /\ inflight[i].op = "getBundle" /\ inflight[i].pc = "fetch"
  /\ bundleError' = Some("Error loading bundle")
  /\ inflight' = Remove(inflight, i)
  /\ last' = Done("getBundle", FALSE, "", inflight[i])
  /\ UNCHANGED <<session, currentBundle, dirty, bundleFileInputModel, localStorage,
                 remote, events, codec>>

\* lines 156-162: the response carries the stored bundle, its name and engine tag
GetBundleFetched(i) ==
  /\ inflight[i].op = "getBundle" /\ inflight[i].pc = "fetch"
  /\ IsSome(remote[inflight[i].id])
  /\ LET stored == Get(remote[inflight[i].id])
     IN inflight' = [inflight EXCEPT ![i] = [@ EXCEPT !.pc = "load", !.zip = stored.bundle,
                                               !.name = stored.name,
                                               !.engine = stored.templateEngine]]
  /\ UNCHANGED <<session, currentBundle, dirty, bundleError, bundleFileInputModel,
                 localStorage, remote, last, events, codec>>

\* lines 165-169, run when the awaited loadBundle has returned
GetBundleContinue(p, op) ==
  LET engine == EngineOfTag(op.engine)
      p1 == Notify([p EXCEPT !.session.templateEngine = engine],
                   engine # p.session.templateEngine)
      p2 == [p1 EXCEPT !.currentBundle = Some([id |-> op.id, name |-> op.name])]
  IN [p2 EXCEPT !.dirty = FALSE]

\* lines 164-172: loadBundle writes the session, the watcher's flush runs before
\* the continuation of getBundle, and once more after it
GetBundleLoaded(i) ==
  /\ inflight[i].op = "getBundle" /\ inflight[i].pc = "load"
  /\ LET op == inflight[i]
         r == loadBundle(op.zip, session)
         p1 == FlushWatch(Notify([Page EXCEPT !.session = r.target], r.notified))
     IN IF r.error = "none"
        THEN /\ SetPage(FlushWatch(GetBundleContinue(p1, op)))
             /\ last' = Done("getBundle", TRUE, "", inflight[i])
        ELSE /\ SetPage([p1 EXCEPT !.bundleError = Some("Error loading bundle")])
             /\ last' = Done("getBundle", FALSE, "", inflight[i])
  /\ inflight' = Remove(inflight, i)
  /\ UNCHANGED <<remote, events, codec>>

(***************************************************************************)
(* storeBundle(name), lines 175-197, called by saveBundle of               *)
(* Playground.vue (lines 409-416).                                         *)
(***************************************************************************)
\* line 410: the name of the linked bundle, else the name typed in the dialog
SaveName(dialogName) ==
  IF IsSome(currentBundle) THEN Get(currentBundle).name ELSE dialogName

\* line 182 sending the empty id whatever the linkage
SentIdAlwaysNew(cb) == ""

\* line 182: currentBundle.value?.id ?? ""
SentId(cb) == IF IsSome(cb) THEN Get(cb).id ELSE ""

\* lines 176-177 and 193-196: packBundle reads the session as the call is made;
\* a throw of packBundle is caught at once, else the call suspends on the zip
StoreBundleCall(dialogName) ==
  /\ events < MaxEvents
  /\ Len(inflight) < MaxInFlight
  /\ SaveName(dialogName) # ""
  /\ LET pk == packBundle(session, includedFilesAll)
     IN IF pk.threw
        THEN /\ bundleError' = Some("Error saving bundle")
             /\ last' = Done("storeBundle", FALSE, "", NoOp)
             /\ UNCHANGED inflight
        ELSE /\ inflight' = Append(inflight, [NoOp EXCEPT !.op = "storeBundle", !.pc = "pack",
                                                        !.name = SaveName(dialogName),
                                                        !.zip = pk.zip])
             /\ UNCHANGED <<bundleError, last>>
  /\ events' = events + 1
  /\ UNCHANGED <<session, currentBundle, dirty, bundleFileInputModel, localStorage,
                 remote, codec>>

\* lines 178-189: the request is built once the zip is generated
StoreBundleSend(i) ==
  /\ inflight[i].op = "storeBundle" /\ inflight[i].pc = "pack"
  /\ inflight' = [inflight EXCEPT ![i] = [@ EXCEPT !.pc = "request",
                                            !.id = SentId(currentBundle),
                                            !.engine = session.templateEngine]]
  /\ UNCHANGED <<session, currentBundle, dirty, bundleError, bundleFileInputModel,
                 localStorage, remote, last, events, codec>>

\* the ids the remote directory may answer a store with: the id sent, or for
\* the empty id one that no stored bundle has
StoreIds(sent) == IF sent = "" THEN {id \in BundleIds : ~IsSome(remote[id])} ELSE {sent}

\* lines 190-192: the request succeeds and answers with res.id
StoreBundleStored(i, rid) ==
  /\ inflight[i].op = "storeBundle" /\ inflight[i].pc = "request"
  /\ rid \in StoreIds(inflight[i].id)
  /\ remote' = [remote EXCEPT ![rid] = Some([bundle |-> inflight[i].zip,
                                            name |-> inflight[i].name,
                                            templateEngine |-> inflight[i].engine])]
  /\ currentBundle' = Some([id |-> rid, name |-> inflight[i].name])
  /\ dirty' = FALSE
  /\ last' = Done("storeBundle", TRUE, rid, inflight[i])
  /\ inflight' = Remove(inflight, i)
  /\ UNCHANGED <<session, bundleError, bundleFileInputModel, localStorage, events, codec>>

\* lines 193-196 with a catch block that also drops the linkage
StoreBundleFailsUnlinks(i) ==
  /\ inflight[i].op = "storeBundle" /\ inflight[i].pc = "request"
  /\ bundleError' = Some("Error saving bundle")
  /\ currentBundle' = None
  /\ last' = Done("storeBundle", FALSE, "", inflight[i])
  /\ inflight' = Remove(inflight, i)
  /\ UNCHANGED <<session, dirty, bundleFileInputModel, localStorage,
                 remote, events, codec>>

\* lines 193-196: the request fails
StoreBundleFails(i) ==
  /\ inflight[i].op = "storeBundle" /\ inflight[i].pc = "request"
  /\ bundleError' = Some("Error saving bundle")
  /\ last' = Done("storeBundle", FALSE, "", inflight[i])
  /\ inflight' = Remove(inflight, i)
  /\ UNCHANGED <<session, currentBundle, dirty, bundleFileInputModel, localStorage,
                 remote, events, codec>>

(***************************************************************************)
(* downloadBundle(only), lines 114-139.  packBundle reads the session      *)
(* before its only await; what follows the await (FileSaver.saveAs) reads  *)
(* and writes nothing of the page.  A throw of packBundle rejects the      *)
(* promise of downloadBundle, which nothing handles.                       *)
(***************************************************************************)
\* lines 114-139 with a reset of dirty after the download
downloadBundleClearsDirty(only) ==
  /\ events < MaxEvents
  /\ LET pk == packBundle(session, IncludedFilesOf(only))
     IN last' = Done("downloadBundle", ~pk.threw, "", NoOp)
  /\ dirty' = FALSE
  /\ events' = events + 1
  /\ UNCHANGED <<session, currentBundle, bundleError, bundleFileInputModel,
                 localStorage, remote, inflight, codec>>

downloadBundle(only) ==
  /\ events < MaxEvents
  /\ LET pk == packBundle(session, IncludedFilesOf(only))
     IN last' = Done("downloadBundle", ~pk.threw, "", NoOp)
  /\ events' = events + 1
  /\ UNCHANGED <<session, currentBundle, dirty, bundleError, bundleFileInputModel,
                 localStorage, remote, inflight, codec>>

(***************************************************************************)
(* loadBundlesInfo(), lines 141-152, called by openLoadBundleDialog of     *)
(* Playground.vue (lines 391-396).                                         *)
(***************************************************************************)
\* the call issues the request and suspends
LoadBundlesInfoCall ==
  /\ events < MaxEvents
  /\ Len(inflight) < MaxInFlight
  /\ inflight' = Append(inflight, [NoOp EXCEPT !.op = "loadBundlesInfo", !.pc = "fetch"])
  /\ events' = events + 1
  /\ UNCHANGED <<session, currentBundle, dirty, bundleError, bundleFileInputModel,
                 localStorage, remote, last, codec>>

\* line 146: res.Items, the bundles the remote directory holds
LoadBundlesInfoListed(i) ==
  /\ inflight[i].op = "loadBundlesInfo"
  /\ last' = [Done("loadBundlesInfo", TRUE, "", inflight[i])
                EXCEPT !.items = {id \in BundleIds : IsSome(remote[id])}]
  /\ inflight' = Remove(inflight, i)
  /\ UNCHANGED <<session, currentBundle, dirty, bundleError, bundleFileInputModel,
                 localStorage, remote, events, codec>>

\* lines 147-151: the request fails; the catch block sets the error, [] is returned
LoadBundlesInfoFails(i) ==
  /\ inflight[i].op = "loadBundlesInfo"
  /\ bundleError' = Some("Error loading bundles info")
  /\ last' = Done("loadBundlesInfo", FALSE, "", inflight[i])
  /\ inflight' = Remove(inflight, i)
  /\ UNCHANGED <<session, currentBundle, dirty, bundleFileInputModel, localStorage,
                 remote, events, codec>>

(***************************************************************************)
(* watch(bundleFileInputModel), lines 207-215.                             *)
(***************************************************************************)
\* Playground.vue line 56: the file input sets the model; the watcher's callback
\* starts and suspends on b.arrayBuffer()
PickFile(zip) ==
  /\ events < MaxEvents
  /\ Len(inflight) < MaxInFlight
  /\ bundleFileInputModel' = Some(zip)
  /\ inflight' = Append(inflight, [NoOp EXCEPT !.op = "import", !.pc = "read", !.zip = zip])
  /\ events' = events + 1
  /\ UNCHANGED <<session, currentBundle, dirty, bundleError, localStorage, remote,
                 last, codec>>

\* lines 210-214 without the call of cleanLocalStorageBundle
ImportContinueKeepsPointer(p) ==
  [p EXCEPT !.currentBundle = None, !.bundleFileInputModel = None]

\* lines 210-214, run when the awaited loadBundle has returned.  Resetting the
\* model runs the watcher once more with b = null, which assigns null again.
ImportContinue(p) ==
  LET p1 == cleanLocalStorageBundle([p EXCEPT !.currentBundle = None])
  IN [p1 EXCEPT !.bundleFileInputModel = None]

\* lines 209-214: a throw of loadBundle rejects the callback's promise, which
\* nothing handles
ImportLoaded(i) ==
  /\ inflight[i].op = "import" /\ inflight[i].pc = "read"
  /\ LET r == loadBundle(inflight[i].zip, session)
         p1 == FlushWatch(Notify([Page EXCEPT !.session = r.target], r.notified))
     IN IF r.error = "none"
        THEN /\ SetPage(ImportContinue(p1))
             /\ last' = Done("import", TRUE, "", inflight[i])
        ELSE /\ SetPage(p1)
             /\ last' = Done("import", FALSE, "", inflight[i])
  /\ inflight' = Remove(inflight, i)
  /\ UNCHANGED <<remote, events, codec>>

(***************************************************************************)
(* window.onbeforeunload, lines 221-229, and the construction of           *)
(* useBundleHandling on the next page load, lines 203-206 and 231-234.     *)
(***************************************************************************)
\* lines 222-224 without the test of currentBundle.value?.id
onbeforeunloadAlwaysWrites(p) == [p EXCEPT !.localStorage = Some(SentId(p.currentBundle))]

\* lines 222-224: the pointer is written when a bundle is linked
onbeforeunload(p) ==
  IF SentId(p.currentBundle) # ""
  THEN [p EXCEPT !.localStorage = Some(Get(p.currentBundle).id)] ELSE p

\* lines 225-228: the hook's return value, the confirmation text or nothing
UnloadPrompt(p) == IF p.dirty THEN "confirm" ELSE ""

\* the hook asks for confirmation (line 225) and the user stays on the page
UnloadCancelled ==
  /\ events < MaxEvents
  /\ dirty
  /\ SetPage(onbeforeunload(Page))
  /\ last' = Done("unload", FALSE, UnloadPrompt(Page), NoOp)
  /\ events' = events + 1
  /\ UNCHANGED <<remote, inflight, codec>>

\* the page is left and loaded again: every async call of the old page is gone,
\* local storage and the remote directory stay
Reload ==
  /\ events < MaxEvents
  /\ LET p == onbeforeunload(Page)
     IN /\ localStorage' = p.localStorage
        /\ inflight' = Resume(p.localStorage)
  /\ session' = getBaseRenderData(FALSE)
  /\ currentBundle' = None
  /\ dirty' = FALSE
  /\ bundleError' = None
  /\ bundleFileInputModel' = None
  /\ last' = Done("reload", TRUE, UnloadPrompt(Page), NoOp)
  /\ events' = events + 1
  /\ UNCHANGED <<remote, codec>>

(***************************************************************************)
(* The page after the construction of useBundleHandling.  With a resume    *)
(* pointer in local storage (left by the unload of an earlier page, which  *)
(* counts as the first event) line 233 has started getBundle for it.       *)
(***************************************************************************)
CodecIdle == [pc |-> "idle", data |-> SampleRenderData, includedFiles |-> NoFiles,
              zip |-> EmptyZip, target |-> SampleRenderData, out |-> SampleRenderData,
              error |-> "none", packed |-> FALSE]

\* what the remote directory holds as the page loads: a bundle under id1 (its
\* engine tag is the sample session's or another), nothing under id2
StoredAtStart ==
  {[bundle |-> FullZip, name |-> "n1", templateEngine |-> "golang"],
   [bundle |-> FullZip, name |-> "n1", templateEngine |-> "handlebars"],
   [bundle |-> BadModelZip, name |-> "n1", templateEngine |-> "golang"]}

InitRemote ==
  {[id \in BundleIds |-> IF id = "id1" THEN Some(st) ELSE None] : st \in StoredAtStart}

Init ==
  /\ session = getBaseRenderData(FALSE)
  /\ currentBundle = None
  /\ dirty = FALSE
  /\ bundleError = None
  /\ bundleFileInputModel = None
  /\ localStorage \in {None, Some("id1")}
  /\ remote \in InitRemote
  /\ inflight = Resume(localStorage)
  /\ last = Done("init", TRUE, "", NoOp)
  /\ events = IF IsSome(localStorage) THEN 1 ELSE 0
  /\ codec = CodecIdle

Next ==
  \/ \E f \in EditFields : \E v \in EditValues[f] : Edit(f, v)
  \/ \E n \in Names : EditBundleName(n)
  \/ loadEmptyData
  \/ loadSampleData
  \/ \E id \in BundleIds : GetBundleCall(id)
  \/ \E i \in 1..Len(inflight) : GetBundleFetchFails(i)
  \/ \E i \in 1..Len(inflight) : GetBundleFetched(i)
  \/ \E i \in 1..Len(inflight) : GetBundleLoaded(i)
  \/ \E n \in Names \cup {""} : StoreBundleCall(n)
  \/ \E i \in 1..Len(inflight) : StoreBundleSend(i)
  \/ \E i \in 1..Len(inflight) : \E rid \in BundleIds : StoreBundleStored(i, rid)
  \/ \E i \in 1..Len(inflight) : StoreBundleFails(i)
  \/ \E only \in OnlyKinds : downloadBundle(only)
  \/ LoadBundlesInfoCall
  \/ \E i \in 1..Len(inflight) : LoadBundlesInfoListed(i)
  \/ \E i \in 1..Len(inflight) : LoadBundlesInfoFails(i)
  \/ \E z \in LocalZips : PickFile(z)
  \/ \E i \in 1..Len(inflight) : ImportLoaded(i)
  \/ UnloadCancelled
  \/ Reload

Spec == Init /\ [][Next]_vars

(***************************************************************************)
(* The codec on its own: packBundle and loadBundle applied to arguments    *)
(* drawn from bounded sets.  codec.out is the target as loadBundle leaves  *)
(* it, codec.target the target as it was handed in.                        *)
(***************************************************************************)
CodecModelStrs ==
  {JsonStringify("m1"), JsonStringifyPretty("m2"), [fmt |-> "loose", val |-> "m1"],
   BadModelStr, EmptyModelStr}

CodecSessions ==
  [htmlTemplate : Texts, headerHtmlTemplate : {"", "t1"}, footerHtmlTemplate : {"", "t2"},
   options : {getBaseOptions, [getBaseOptions EXCEPT !.pageFormat = "set"]},
   model : {"m1", "m2"}, modelStr : CodecModelStrs, assets : AssetSeqs,
   templateEngine : {"golang"}]

PopulatedTarget ==
  [htmlTemplate |-> "t1", headerHtmlTemplate |-> "t1", footerHtmlTemplate |-> "t1",
   options |-> [getBaseOptions EXCEPT !.landscape = "set"], model |-> "m1",
   modelStr |-> [fmt |-> "loose", val |-> "m1"],
   assets |-> <<[name |-> "a2", blob |-> "b2"]>>, templateEngine |-> "handlebars"]

CodecTargets == {getBaseRenderData(FALSE), getBaseRenderData(TRUE), PopulatedTarget}

\* archives that were not written by packBundle
GivenZips ==
  {CorruptZip, BadOptionsZip, BadModelZip,
   [FullZip EXCEPT !.exampleModel = Some(EmptyModelStr)],
   [FullZip EXCEPT !.options = Some(EmptyOptionsStr)],
   [FullZip EXCEPT !.options = Some(JsonStringify([landscape |-> "set"])),
                   !.exampleModel = Some([fmt |-> "loose", val |-> "m2"])],
   [HeaderOnlyZip EXCEPT !.exampleModel = Some(BadModelStr)],
   [EmptyZip EXCEPT !.assets = <<FolderEntry>>],
   [EmptyZip EXCEPT !.index = Some("")]}

InitCodec ==
  /\ session = getBaseRenderData(FALSE)
  /\ currentBundle = None
  /\ dirty = FALSE
  /\ bundleError = None
  /\ bundleFileInputModel = None
  /\ localStorage = None
  /\ remote = [id \in BundleIds |-> None]
  /\ inflight = <<>>
  /\ last = Done("init", TRUE, "", NoOp)
  /\ events = 0
  /\ \/ \E d \in CodecSessions, only \in OnlyKinds, t \in CodecTargets :
          codec = [pc |-> "start", data |-> d, includedFiles |-> IncludedFilesOf(only),
                   zip |-> EmptyZip, target |-> t, out |-> t, error |-> "none",
                   packed |-> TRUE]
     \/ \E z \in GivenZips, t \in CodecTargets :
          codec = [pc |-> "packed", data |-> getBaseRenderData(FALSE),
                   includedFiles |-> NoFiles, zip |-> z, target |-> t, out |-> t,
                   error |-> "none", packed |-> FALSE]

CodecPack ==
  /\ codec.pc = "start"
  /\ LET pk == packBundle(codec.data, codec.includedFiles)
     IN codec' = IF pk.threw THEN [codec EXCEPT !.pc = "threw", !.error = "SyntaxError"]
                 ELSE [codec EXCEPT !.pc = "packed", !.zip = pk.zip]
  /\ UNCHANGED <<session, currentBundle, dirty, bundleError, bundleFileInputModel,
                 localStorage, remote, inflight, last, events>>

CodecLoad ==
  /\ codec.pc = "packed"
  /\ LET r == loadBundle(codec.zip, codec.target)
     IN codec' = [codec EXCEPT !.pc = "loaded", !.out = r.target, !.error = r.error]
  /\ UNCHANGED <<session, currentBundle, dirty, bundleError, bundleFileInputModel,
                 localStorage, remote, inflight, last, events>>

NextCodec == CodecPack \/ CodecLoad

SpecCodec == InitCodec /\ [][NextCodec]_vars

(***************************************************************************)
(* Properties of the reconciler, checked under Spec.  last names the       *)
(* handler that completed last; it stands until the next handler           *)
(* completes, and the steps in between (calls that suspend, responses      *)
(* that arrive) change neither the session nor currentBundle nor dirty.    *)
(***************************************************************************)
SavedOk == last.op = "storeBundle" /\ last.ok

SaveFailed == last.op = "storeBundle" /\ ~last.ok

LoadedOk == last.op = "getBundle" /\ last.ok

LoadFailed == last.op = "getBundle" /\ ~last.ok

ImportedOk == last.op = "import" /\ last.ok

\* C1: dirty lifecycle.  After an edit of any session field dirty is true; after
\* a successful storeBundle dirty is false; after a failed storeBundle dirty is
\* what it was before the failure (so a dirty session stays dirty).
DirtyLifecycle ==
  /\ last.op = "edit" => dirty
  /\ SavedOk => ~dirty
  /\ SaveFailed => dirty = last.before.dirty

\* C1 witness: a linked session (loaded or saved before) that had been edited
\* and was dirty has just been saved successfully and is clean again.
DirtyLifecycleWitness ==
  /\ SavedOk
  /\ IsSome(last.before.currentBundle)
  /\ last.before.dirty
  /\ ~dirty

\* C2: after a successful getBundle(id), currentBundle is {id, name of the
\* directory}, templateEngine is the fetched tag and dirty is false (until the
\* next handler completes).
FetchAndLoadLeavesClean ==
  LoadedOk =>
    /\ currentBundle = Some([id |-> last.call.id, name |-> last.call.name])
    /\ session.templateEngine = last.call.engine
    /\ ~dirty

\* C3: after a failed getBundle, bundleError is set and the session,
\* currentBundle and dirty are what they were before.
FetchAndLoadFailureLeavesSession ==
  LoadFailed =>
    /\ IsSome(bundleError)
    /\ session = last.before.session
    /\ currentBundle = last.before.currentBundle
    /\ dirty = last.before.dirty

\* C4: a failed storeBundle (packBundle throws, or the store request fails) sets
\* bundleError, returns "" and leaves currentBundle, dirty and the session as
\* they were, linked or not.
SaveFailureChangesNothing ==
  SaveFailed =>
    /\ IsSome(bundleError)
    /\ last.ret = ""
    /\ currentBundle = last.before.currentBundle
    /\ dirty = last.before.dirty
    /\ session = last.before.session

\* C4 witness: the store request of a linked, dirty session has failed.
SaveFailureWitness ==
  /\ SaveFailed
  /\ last.call.pc = "request"
  /\ IsSome(currentBundle)
  /\ dirty
  /\ IsSome(bundleError)

\* C5: the store request carries the id of currentBundle as it is when the
\* request is built, or "" when there is none; a successful store sets
\* currentBundle to {id answered, name given}, returns that id, which is not
\* empty, from the unlinked and from the linked state.
SaveLinks ==
  [][/\ \A i \in 1..Len(inflight) :
          StoreBundleSend(i) =>
            inflight'[i].id = (IF currentBundle = None THEN "" ELSE currentBundle[1].id)
     /\ \A i \in 1..Len(inflight) : \A rid \in BundleIds :
          StoreBundleStored(i, rid) =>
            /\ currentBundle' = Some([id |-> rid, name |-> inflight[i].name])
            /\ last'.ret = rid
            /\ rid # ""
            /\ inflight[i].id # "" => rid = inflight[i].id]_vars

\* C5 witness: a save from the unlinked state has linked the session to the id
\* the store answered, and a later request carries that id.
SaveLinksWitness ==
  /\ SavedOk
  /\ last.before.currentBundle = None
  /\ last.call.id = ""
  /\ currentBundle = Some([id |-> last.ret, name |-> last.call.name])
  /\ \E i \in 1..Len(inflight) :
       inflight[i].op = "storeBundle" /\ inflight[i].pc = "request"
       /\ inflight[i].id = last.ret

\* C6: a successful import leaves the session as loadBundle decodes the file
\* into it, currentBundle null and the resume pointer removed.
ImportUnlinks ==
  ImportedOk =>
    /\ session = loadBundle(last.call.zip, last.before.session).target
    /\ currentBundle = None
    /\ localStorage = None

\* C6 witness: the import ran on a linked session with a resume pointer stored.
ImportUnlinksWitness ==
  /\ ImportedOk
  /\ IsSome(last.before.currentBundle)
  /\ IsSome(last.before.localStorage)
  /\ session # last.before.session
  /\ currentBundle = None
  /\ localStorage = None

\* C7: after a successful import dirty is false.
ImportLeavesClean == ImportedOk => ~dirty

(***************************************************************************)
(* Properties of the codec, checked under SpecCodec.                       *)
(***************************************************************************)
Loaded == codec.pc = "loaded"

HasAssetEntries(zip) == \E i \in 1..Len(zip.assets) : zip.assets[i].name # ""

\* C8: partial-archive merge.  After a successful loadBundle every member
\* present in the archive has overwritten its target field and every member
\* absent from it has left its target field as it was.
PartialArchiveMerge ==
  (Loaded /\ codec.error = "none") =>
    /\ codec.out.htmlTemplate =
         (IF IsSome(codec.zip.index) THEN Get(codec.zip.index) ELSE codec.target.htmlTemplate)
    /\ codec.out.headerHtmlTemplate =
         (IF IsSome(codec.zip.header) THEN Get(codec.zip.header)
          ELSE codec.target.headerHtmlTemplate)
    /\ codec.out.footerHtmlTemplate =
         (IF IsSome(codec.zip.footer) THEN Get(codec.zip.footer)
          ELSE codec.target.footerHtmlTemplate)
    /\ ~IsSome(codec.zip.options) => codec.out.options = codec.target.options
    /\ ~IsSome(codec.zip.exampleModel) =>
         /\ codec.out.model = codec.target.model
         /\ codec.out.modelStr = codec.target.modelStr
    /\ ~HasAssetEntries(codec.zip) => codec.out.assets = codec.target.assets

\* the sessions the round trip is claimed for: non-empty body, header and
\* footer, a model string that is valid JSON with the model value parsed from
\* it, and at least one asset, the asset names pairwise distinct
RoundTripSession(d) ==
  /\ Truthy(d.htmlTemplate) /\ Truthy(d.headerHtmlTemplate) /\ Truthy(d.footerHtmlTemplate)
  /\ JsonValid(d.modelStr) /\ d.model = JsonParse(d.modelStr)
  /\ Len(d.assets) >= 1 /\ DistinctNames(d.assets)

\* C9: round trip.  loadBundle(packBundle(session, all files), target) succeeds
\* and leaves the target equal to the session in body, header, footer, options,
\* model (value, and the value its string denotes) and assets (names, bytes, order).
RoundTrip ==
  (Loaded /\ codec.packed /\ codec.includedFiles = includedFilesAll
     /\ RoundTripSession(codec.data)) =>
    /\ codec.error = "none"
    /\ codec.out.htmlTemplate = codec.data.htmlTemplate
    /\ codec.out.headerHtmlTemplate = codec.data.headerHtmlTemplate
    /\ codec.out.footerHtmlTemplate = codec.data.footerHtmlTemplate
    /\ codec.out.options = codec.data.options
    /\ codec.out.model = codec.data.model
    /\ JsonValid(codec.out.modelStr)
    /\ JsonParse(codec.out.modelStr) = JsonParse(codec.data.modelStr)
    /\ codec.out.assets = codec.data.assets

\* C9 witness: a session with two assets and a model string that is not in
\* the pretty layout has made the round trip into the empty base session.
RoundTripWitness ==
  /\ Loaded /\ codec.packed /\ codec.includedFiles = includedFilesAll
  /\ RoundTripSession(codec.data)
  /\ Len(codec.data.assets) = 2
  /\ codec.data.modelStr.fmt = "loose"
  /\ codec.target = getBaseRenderData(TRUE)
  /\ codec.out.assets = codec.data.assets
  /\ codec.out.model = codec.data.model

InvalidModelMember(zip) ==
  zip.ok /\ IsSome(zip.exampleModel) /\ ~JsonValid(Get(zip.exampleModel))

PackMembers ==
  (codec.packed /\ codec.pc \in {"packed", "loaded"}) =>
    LET d == codec.data
        inc == codec.includedFiles
        z == codec.zip
        files == SelectSeq(z.assets, LAMBDA e : e.name # "")
    IN /\ z.index = (IF inc.index THEN Some(d.htmlTemplate) ELSE None)
       /\ z.header = (IF inc.header /\ d.headerHtmlTemplate # ""
                      THEN Some(d.headerHtmlTemplate) ELSE None)
       /\ z.footer = (IF inc.footer /\ d.footerHtmlTemplate # ""
                      THEN Some(d.footerHtmlTemplate) ELSE None)
       /\ z.options = (IF inc.options THEN Some(JsonStringify(d.options)) ELSE None)
       /\ IsSome(z.exampleModel) <=> inc.exampleModel
       /\ \A n \in AssetNames :
            HasEntry(z.assets, n) <=> (inc.assets /\ \E i \in 1..Len(d.assets) : d.assets[i].name = n)
       /\ (~inc.assets \/ d.assets = <<>>) => z.assets = <<>>
       /\ (inc.assets /\ DistinctNames(d.assets)) =>
            files = [i \in 1..Len(d.assets) |-> [name |-> d.assets[i].name,
                                                 blob |-> d.assets[i].blob]]

\* C11 witness: the full selection packed a session with an empty header, a
\* non-empty footer and two assets: no header.html, a footer.html, two files.
PackMembersWitness ==
  /\ codec.packed /\ codec.pc = "packed"
  /\ codec.includedFiles = includedFilesAll
  /\ codec.data.headerHtmlTemplate = "" /\ codec.data.htmlTemplate = ""
  /\ codec.zip.header = None
  /\ codec.zip.index = Some("")
  /\ IsSome(codec.zip.footer)
  /\ Len(codec.data.assets) = 2 /\ DistinctNames(codec.data.assets)
  /\ Len(codec.zip.assets) = 3

AssetEntries(zip) == SelectSeq(zip.assets, LAMBDA e : e.name # "")

\* C13: after a successful unpack of an archive with at least one entry below
\* "assets/", the target's assets are exactly those entries, in their order,
\* with non-empty pairwise distinct names, whatever assets it had before;
\* without such an entry the target's assets are unchanged.
AssetsOnUnpack ==
  (codec.pc = "loaded" /\ codec.error = "none") =>
    LET found == AssetEntries(codec.zip)
    IN IF found # <<>>
       THEN /\ codec.out.assets = [i \in 1..Len(found) |-> [name |-> found[i].name,
                                                           blob |-> found[i].blob]]
            /\ \A i \in 1..Len(codec.out.assets) : codec.out.assets[i].name # ""
            /\ DistinctNames(codec.out.assets)
       ELSE codec.out.assets = codec.target.assets

\* C13 witness: a target holding asset a2 unpacked an archive holding only
\* asset a1, and holds only a1 now.
AssetsOnUnpackWitness ==
  /\ codec.pc = "loaded" /\ codec.error = "none"
  /\ Len(codec.target.assets) = 1 /\ codec.target.assets[1].name = "a2"
  /\ Len(AssetEntries(codec.zip)) = 1
  /\ Len(codec.out.assets) = 1 /\ codec.out.assets[1].name = "a1"

ImportFailed == last.op = "import" /\ ~last.ok

DownloadFailed == last.op = "downloadBundle" /\ ~last.ok

ListFailed == last.op = "loadBundlesInfo" /\ ~last.ok

\* C14: every operation of the reconciler that failed (listing, fetch and
\* load, save, import of a local file, export) has left bundleError set, and
\* a failed listing has returned no item.
FailuresRecorded ==
  /\ (ListFailed \/ LoadFailed \/ SaveFailed \/ ImportFailed \/ DownloadFailed) =>
       IsSome(bundleError)
  /\ ListFailed => last.items = {}

\* C15: after loadEmptyData, after loadSampleData and after the import of a
\* local file, local storage holds no resume pointer (so the next page load
\* starts no getBundle).
NewSessionClearsPointer ==
  (last.op \in {"loadEmptyData", "loadSampleData"} \/ ImportedOk) => localStorage = None

\* C16: the unload hook writes the id of the linked bundle as the resume
\* pointer, and nothing when no bundle is linked; local storage never holds
\* anything but an id; the hook asks for confirmation iff dirty is true.
UnloadHook ==
  /\ localStorage \in {None} \cup {Some(id) : id \in BundleIds}
  /\ last.op \in {"unload", "reload"} =>
       /\ localStorage = IF IsSome(last.before.currentBundle)
                         THEN Some(Get(last.before.currentBundle).id)
                         ELSE last.before.localStorage
       /\ last.ret = "confirm" <=> last.before.dirty

\* C16 witness: a page with a linked bundle, clean, and no pointer yet was
\* left without a prompt, and the pointer holds the bundle's id.
UnloadHookWitness ==
  /\ last.op = "reload" /\ last.ret = ""
  /\ IsSome(last.before.currentBundle)
  /\ ~last.before.dirty
  /\ last.before.localStorage = None
  /\ localStorage = Some(Get(last.before.currentBundle).id)

ResumeOps == {i \in 1..Len(inflight) : inflight[i].resume}

\* C17: as long as nothing has completed since construction, a getBundle for
\* the resume pointer is in flight iff local storage holds a pointer (and no
\* other resume is); a resume that failed has set bundleError and has left
\* the session, currentBundle and dirty as they were.
ResumeOnStart ==
  /\ last.op \in {"init", "reload"} =>
       /\ IsSome(localStorage) =>
            \E i \in 1..Len(inflight) :
              ResumeOps = {i} /\ inflight[i].op = "getBundle"
                              /\ inflight[i].id = Get(localStorage)
       /\ ~IsSome(localStorage) => ResumeOps = {}
  /\ (LoadFailed /\ last.call.resume) =>
       /\ IsSome(bundleError)
       /\ currentBundle = last.before.currentBundle
       /\ session = last.before.session
       /\ dirty = last.before.dirty

\* C18: a call of storeBundle on a session whose model string is not valid
\* JSON fails at once: no request is put in flight, the remote directory is
\* not touched, bundleError is set, "" is returned, and the session,
\* currentBundle and dirty stay.  A call that does put a request in flight
\* had a valid model string, and the archive's example-model.json is that
\* string parsed and written again, whatever the cached model is.  The remote
\* directory changes only by a request that is in flight.
SaveMalformedModel ==
  [][/\ (events' = events + 1 /\ last'.op = "storeBundle" /\ inflight' = inflight) =>
          /\ JsonParseThrows(session.modelStr)
          /\ ~last'.ok /\ last'.ret = "" /\ last'.call = NoOp
          /\ IsSome(bundleError')
          /\ UNCHANGED <<session, currentBundle, dirty, remote, localStorage>>
     /\ (Len(inflight') = Len(inflight) + 1 /\ inflight'[Len(inflight')].op = "storeBundle") =>
          /\ ~JsonParseThrows(session.modelStr)
          /\ inflight'[Len(inflight')].zip.exampleModel =
               Some(JsonStringify(JsonParse(session.modelStr)))
     /\ remote' # remote =>
          \E i \in 1..Len(inflight) :
            inflight[i].op = "storeBundle" /\ inflight[i].pc = "request"]_vars

\* C18 witness: a save of a linked bundle whose model string had been edited
\* into invalid JSON has failed without a request; the linkage stands.
SaveMalformedModelWitness ==
  /\ SaveFailed /\ last.call = NoOp /\ last.ret = ""
  /\ JsonParseThrows(last.before.session.modelStr)
  /\ last.before.bundleError = None /\ IsSome(bundleError)
  /\ IsSome(currentBundle) /\ currentBundle = last.before.currentBundle
  /\ \A i \in 1..Len(inflight) : inflight[i].op # "storeBundle"

\* C19: a call of downloadBundle, whatever its selection and whether or not
\* packBundle throws, leaves the session, currentBundle, dirty, bundleError,
\* the file input's model, the resume pointer, the remote directory and the
\* calls in flight as they were.  (The step of a call of downloadBundle is
\* the event after which last names downloadBundle and which has put no call
\* in flight.)
ExportChangesNothing ==
  [][(events' = events + 1 /\ last'.op = "downloadBundle" /\ Len(inflight') = Len(inflight)) =>
       UNCHANGED <<session, currentBundle, dirty, bundleError, bundleFileInputModel,
                   localStorage, remote, inflight>>]_vars

\* C19 witness: an export made on a dirty page with a linked bundle and a
\* file import pending; all of that is as it was before the export.
ExportChangesNothingWitness ==
  /\ last.op = "downloadBundle" /\ last.ok
  /\ dirty /\ IsSome(currentBundle) /\ IsSome(bundleFileInputModel)
  /\ [Page EXCEPT !.watchQueued = FALSE] = [last.before EXCEPT !.watchQueued = FALSE]

\* the session fields an archive carries
Content(d) ==
  [htmlTemplate |-> d.htmlTemplate, headerHtmlTemplate |-> d.headerHtmlTemplate,
   footerHtmlTemplate |-> d.footerHtmlTemplate, options |-> d.options,
   model |-> d.model, assets |-> d.assets]

\* C20: after a successful getBundle the session's body, header, footer,
\* options, model and assets are those that loading the fetched archive
\* gives from any other starting session: they depend on the archive alone.
FullSessionDecode ==
  LoadedOk =>
    \A t \in CodecTargets :
      Content(session) = Content(loadBundle(last.call.zip, t).target)

\* the calls in flight that write or pack the session
SessionOps == {i \in 1..Len(inflight) : inflight[i].op \in {"getBundle", "storeBundle", "import"}}

\* C21: at most one of getBundle (the resume at construction included),
\* storeBundle and the import of a local file is in flight at a time.
OneOperationInFlight == Cardinality(SessionOps) <= 1

\* C22: with no call in flight, if the user has edited the session after the
\* last successful storeBundle packed it (also while its request was in
\* flight), dirty is true.
DirtyAfterEditDuringSave ==
  (inflight = <<>> /\ SavedOk /\ last.call.edited) => dirty

\* C23: the file input's model is set only while an import is in flight:
\* every import, whether loadBundle returns or throws, ends with the model
\* reset to null.
FileHandleTransient ==
  IsSome(bundleFileInputModel) => \E i \in 1..Len(inflight) : inflight[i].op = "import"

====
